---- MODULE Spec2Model ----
(***************************************************************************)
(* Model of main.py: the Telegram weather bot (aiogram handlers, the       *)
(* in-memory maps LAST_CITY / PICK_OPTIONS / STATE, the data.json file and *)
(* the APScheduler job table).                                             *)
(*                                                                         *)
(* Every handler is one action per stretch of code between two awaits      *)
(* that touch no program state: a handler that mutates state on both sides *)
(* of an await (handle_city_query around geocode_city, pick_city around    *)
(* edit_text) is split there, and its continuation waits in `inflight`.    *)
(* Telegram sends (answer / send_message / edit_text) are taken to         *)
(* succeed; the reply they carry is recorded in `last`.                    *)
(*                                                                         *)
(* Spec and SpecSolo follow the handlers; SpecRace follows one user typing *)
(* two different cities; SpecSave follows save_state piece by piece with   *)
(* the process dying anywhere in it; SpecFetch follows one forecast from   *)
(* the service's answer to the message text.                               *)
(***************************************************************************)
EXTENDS Integers, Sequences, FiniteSets, TLC

VARIABLES
    LAST_CITY,      \* main.py:56   user id -> last query typed (Val)
    PICK_OPTIONS,   \* main.py:57   user id -> stored geocoder results (<<>> = no key)
    State,          \* main.py:60   STATE["users"]: user id -> profile (exists = key present)
    disk,           \* data.json: the serialized document, or no file
    jobs,           \* the scheduler's job store: a list of job records
    inflight,       \* handlers suspended at an await, oldest first
    prompts,        \* picker messages in the chat, in order (index = prompt id)
    curPrompt,      \* user id -> id of the prompt PICK_OPTIONS[u] was offered by (0 = none)
    last,           \* the handler step that ran last, its input and its reply
    budget,         \* number of updates the run may still receive
    member,         \* main.py:190 what is_subscribed gives for the sender of the last update
    tmp,            \* main.py:72  data.json.tmp: the file save_state writes before the rename
    pc,             \* where the function followed step by step stands ("idle": nowhere)
    payload,        \* main.py:162 the forecast service's answer: status and daily arrays
    forecast,       \* main.py:225 what fetch_tomorrow_forecast returned
    text            \* main.py:229 what format_forecast_text returned, or that it raised

fetchVars == <<payload, forecast, text>>

\* What only the step-by-step specifications change.
stepVars == <<tmp, pc, fetchVars>>

vars == <<LAST_CITY, PICK_OPTIONS, State, disk, jobs, inflight, prompts, curPrompt, last, budget,
          member, stepVars>>

----------------------------------------------------------------------------
(* Bounds *)

MaxOps == 3
MaxSoloOps == 5
MaxInflight == 2
MaxPrompts == 2

UserIds == {1, 2}

----------------------------------------------------------------------------
(* JSON-like values. Every value is a record of one shape so that any two  *)
(* can be compared: t is the kind, n the number, s the string (a sequence  *)
(* of characters or of comma-free segments).                               *)

Absent == [t |-> "absent", n |-> 0, s |-> <<>>]    \* key not in the dict
Null   == [t |-> "null",   n |-> 0, s |-> <<>>]    \* None / JSON null
Num(x) == [t |-> "num",    n |-> x, s |-> <<>>]
Str(x) == [t |-> "str",    n |-> 0, s |-> x]
Daily(x) == [t |-> "dict", n |-> 0, s |-> x]       \* {"time": x}

\* Python truthiness of dict.get(key): a missing key gives None.
Truthy(v) ==
    CASE v.t = "absent" -> FALSE
      [] v.t = "null"   -> FALSE
      [] v.t = "num"    -> v.n # 0
      [] v.t = "str"    -> v.s # <<>>
      [] OTHER          -> TRUE

----------------------------------------------------------------------------
(* Profiles: STATE["users"][str(user_id)] *)

NoProfile ==
    [exists |-> FALSE, city_label |-> Absent, lat |-> Absent, lon |-> Absent,
     tz |-> Absent, daily |-> Absent]

EmptyProfile == [NoProfile EXCEPT !.exists = TRUE]

ProfileKeys == {"city_label", "lat", "lon", "tz", "daily"}

Field(p, k) ==
    CASE k = "city_label" -> p.city_label
      [] k = "lat"        -> p.lat
      [] k = "lon"        -> p.lon
      [] k = "tz"         -> p.tz
      [] OTHER            -> p.daily

\* `if not u` on a profile dict: a missing key or an empty dict.
ProfileFalsy(p) == ~p.exists \/ \A k \in ProfileKeys : Field(p, k) = Absent

\* ensure_user: the users dict after the call; the profile it returns is users[u].
ensure_user(users, u) ==
    IF ProfileFalsy(users[u]) THEN [users EXCEPT ![u] = EmptyProfile] ELSE users

----------------------------------------------------------------------------
(* data.json: json.dump writes one object per user holding the keys that   *)
(* are set; json.load rebuilds the dicts from it.                          *)

\* `closed`: the text ends with the brace that closes the document, which
\* json.dump writes last; a file cut short before it does not parse.
NoFile == [file |-> FALSE, users |-> {}, items |-> {}, closed |-> FALSE]

json_dump(users) ==
    [file  |-> TRUE,
     users |-> {u \in UserIds : users[u].exists},
     items |-> {<<u, k, Field(users[u], k)>> :
                   u \in {x \in UserIds : users[x].exists},
                   k \in {y \in ProfileKeys : TRUE}}
               \ {<<u, k, Absent>> : u \in UserIds, k \in ProfileKeys},
     closed |-> TRUE]

Lookup(doc, u, k) ==
    IF \E it \in doc.items : it[1] = u /\ it[2] = k
    THEN (CHOOSE it \in doc.items : it[1] = u /\ it[2] = k)[3]
    ELSE Absent

json_load(doc) ==
    [u \in UserIds |->
        IF u \in doc.users
        THEN [exists |-> TRUE,
              city_label |-> Lookup(doc, u, "city_label"),
              lat |-> Lookup(doc, u, "lat"),
              lon |-> Lookup(doc, u, "lon"),
              tz |-> Lookup(doc, u, "tz"),
              daily |-> Lookup(doc, u, "daily")]
        ELSE NoProfile]

\* load_state: the dict keeps its initial value when there is no file, and
\* is reset to {"users": {}} when json.load raises.
load_state(doc) ==
    IF doc.file /\ doc.closed THEN json_load(doc) ELSE [u \in UserIds |-> NoProfile]

\* save_state dumping the location keys only
save_state_nodaily(users) ==
    json_dump([u \in UserIds |-> [users[u] EXCEPT !.daily = Absent]])

\* save_state: the document that replaces data.json.
save_state(users) == json_dump(users)

----------------------------------------------------------------------------
(* Strings the code parses are sequences of characters.                    *)

Digits == {"0", "1", "2", "3", "4", "5", "6", "7", "8", "9"}

DigitVal(c) ==
    CASE c = "0" -> 0 [] c = "1" -> 1 [] c = "2" -> 2 [] c = "3" -> 3
      [] c = "4" -> 4 [] c = "5" -> 5 [] c = "6" -> 6 [] c = "7" -> 7
      [] c = "8" -> 8 [] OTHER -> 9

\* str.split(sep): the pieces between the separators, empty pieces kept.
RECURSIVE SplitFrom(_, _, _)
SplitFrom(s, sep, cur) ==
    IF s = <<>> THEN <<cur>>
    ELSE IF Head(s) = sep THEN <<cur>> \o SplitFrom(Tail(s), sep, <<>>)
    ELSE SplitFrom(Tail(s), sep, Append(cur, Head(s)))

Split(s, sep) == SplitFrom(s, sep, <<>>)

\* str.split(sep, 1): at most one cut, at the first separator.
RECURSIVE FirstIndex(_, _, _)
FirstIndex(s, sep, i) ==
    IF i > Len(s) THEN 0
    ELSE IF s[i] = sep THEN i
    ELSE FirstIndex(s, sep, i + 1)

SplitOnce(s, sep) ==
    LET i == FirstIndex(s, sep, 1)
    IN IF i = 0 THEN <<s>>
       ELSE <<SubSeq(s, 1, i - 1), SubSeq(s, i + 1, Len(s))>>

\* int(x) accepts an optional sign followed by at least one digit, and
\* raises ValueError on anything else the inputs here can hold.
Unsigned(s) == IF s # <<>> /\ Head(s) \in {"+", "-"} THEN Tail(s) ELSE s

IsInt(s) ==
    /\ Unsigned(s) # <<>>
    /\ \A i \in 1..Len(Unsigned(s)) : Unsigned(s)[i] \in Digits

RECURSIVE NatVal(_, _)
NatVal(s, acc) ==
    IF s = <<>> THEN acc ELSE NatVal(Tail(s), 10 * acc + DigitVal(Head(s)))

IntVal(s) ==
    IF s # <<>> /\ Head(s) = "-" THEN 0 - NatVal(Unsigned(s), 0)
    ELSE NatVal(Unsigned(s), 0)

----------------------------------------------------------------------------
(* The scheduler's job store (AsyncIOScheduler, started in on_startup).    *)

JobId(u) == [prefix |-> "daily_", uid |-> u]

\* pytz.timezone(tz): UnknownTimeZoneError for None and for unknown names.
KnownTimezones == {<<"Europe/Minsk">>, <<"Europe/London">>, <<"UTC">>, <<"Africa/Libreville">>}

TimezoneOk(tz) == tz.t = "str" /\ tz.s \in KnownTimezones

\* CronTrigger(hour=, minute=): ValueError outside 0..23 / 0..59.
CronOk(hour, minute) == hour \in 0..23 /\ minute \in 0..59

HasJob(js, id) == \E i \in 1..Len(js) : js[i].id = id

\* scheduler.get_job(id): the position of the job, 0 when there is none.
get_job(js, id) ==
    IF HasJob(js, id) THEN CHOOSE i \in 1..Len(js) : js[i].id = id ELSE 0

\* job.remove()
remove_job(js, i) == SubSeq(js, 1, i - 1) \o SubSeq(js, i + 1, Len(js))

\* scheduler.add_job(..., id=job_id, replace_existing=True)
add_job(js, job) ==
    IF HasJob(js, job.id)
    THEN [js EXCEPT ![get_job(js, job.id)] = job]
    ELSE Append(js, job)

\* hour, minute = map(int, time_str.split(":")): ValueError unless there
\* are exactly two pieces and both are integers.
TimeParses(time_str) ==
    LET parts == Split(time_str, ":")
    IN Len(parts) = 2 /\ IsInt(parts[1]) /\ IsInt(parts[2])

ParsedHour(time_str) == IntVal(Split(time_str, ":")[1])
ParsedMinute(time_str) == IntVal(Split(time_str, ":")[2])

\* schedule_daily with the lookup of the old job missing and the new job
\* added under a fresh key.
schedule_daily_dup(js, u, time_str, tz) ==
    IF TimeParses(time_str) /\ TimezoneOk(tz)
       /\ CronOk(ParsedHour(time_str), ParsedMinute(time_str))
    THEN [jobs   |-> Append(js, [id |-> JobId(u),
                                 hour |-> ParsedHour(time_str),
                                 minute |-> ParsedMinute(time_str),
                                 tz |-> tz.s,
                                 args |-> u]),
          raised |-> FALSE]
    ELSE [jobs |-> js, raised |-> TRUE]

\* schedule_daily: the job list it leaves, and whether it raised. The old
\* job is removed before the time and the timezone are looked at.
schedule_daily(js, u, time_str, tz) ==
    LET i   == get_job(js, JobId(u))
        js1 == IF i # 0 THEN remove_job(js, i) ELSE js
        ok  == /\ TimeParses(time_str)
               /\ TimezoneOk(tz)
               /\ CronOk(ParsedHour(time_str), ParsedMinute(time_str))
    IN IF ok
       THEN [jobs   |-> add_job(js1, [id |-> JobId(u),
                                      hour |-> ParsedHour(time_str),
                                      minute |-> ParsedMinute(time_str),
                                      tz |-> tz.s,
                                      args |-> u]),
             raised |-> FALSE]
       ELSE [jobs |-> js1, raised |-> TRUE]

\* cancel_daily that leaves the job where it is
cancel_daily_noop(js, u) == js

\* cancel_daily
cancel_daily(js, u) ==
    LET i == get_job(js, JobId(u))
    IN IF i # 0 THEN remove_job(js, i) ELSE js

----------------------------------------------------------------------------
(* Geocoder candidates and the label made of them.                         *)

Geo(name, admin1, cc, lat, lon, tz) ==
    [name |-> name, admin1 |-> admin1, country_code |-> cc,
     latitude |-> lat, longitude |-> lon, timezone |-> tz]

\* geo.get(key) or "": the segments a field contributes to the label.
Segments(v) == IF v.t = "str" THEN v.s ELSE <<>>

\* format_city_label: "name, admin, country" stripped of blanks and commas
\* at both ends, ", ," collapsed: the non-empty segments in order. A name
\* that is None prints as the word None; a missing name is "".
format_city_label(geo) ==
    Str((IF geo.name.t = "null" THEN <<"None">> ELSE Segments(geo.name))
        \o Segments(geo.admin1) \o Segments(geo.country_code))

Minsk      == Geo(Str(<<"Minsk">>), Str(<<"Minsk">>), Str(<<"BY">>), Num(53), Num(27), Str(<<"Europe/Minsk">>))
London     == Geo(Str(<<"London">>), Null, Str(<<"GB">>), Num(51), Num(0), Str(<<"Europe/London">>))
Libreville == Geo(Str(<<"Libreville">>), Absent, Str(<<"GA">>), Num(0), Num(9), Str(<<"Africa/Libreville">>))
Rockall    == Geo(Str(<<"Rockall">>), Absent, Absent, Num(57), Num(-13), Absent)
Atoll      == Geo(Str(<<"Atoll">>), Absent, Absent, Num(-9), Num(-140), Null)
Grodno     == Geo(Str(<<"Grodno">>), Str(<<"Grodno">>), Str(<<"BY">>), Num(54), Num(24), Str(<<"Europe/Minsk">>))

\* What the geocoding service may answer with "results" (it is asked for
\* count=5 but nothing in the code holds it to that).
GeoResults ==
    { <<>>,
      <<Minsk>>,
      <<Atoll>>,
      <<London, Rockall>>,
      <<Libreville, London, Minsk, Rockall, Atoll, Grodno>> }

Queries == {<<"Minsk">>}

----------------------------------------------------------------------------
(* Inputs *)

T0800 == <<"0", "8", ":", "0", "0">>
T0830 == <<"0", "8", ":", "3", "0">>
T2500 == <<"2", "5", ":", "0", "0">>      \* matches the shape, no such hour
Tabcd == <<"a", "b", ":", "c", "d">>      \* has a colon, no numbers
Tbare == <<"0", "8", "3", "0">>           \* no colon

\* The words after "/daily" in the message text.
DailyArgs == { <<>>, <<T0800>>, <<T0830>>, <<T2500>>, <<Tbare>>, <<T0800, T0830>> }

\* callback data of the "daily:" buttons; the bot itself only sends daily:08:00.
DailyPrefix == <<"d", "a", "i", "l", "y", ":">>
DailyData == { DailyPrefix \o T0800, DailyPrefix \o Tabcd }

\* callback data of the "pick:" buttons, after the prefix is cut off by
\* split(":")[1].
PickPrefix == <<"p", "i", "c", "k", ":">>
PickData == { PickPrefix \o <<"0">>, PickPrefix \o <<"1">>, PickPrefix \o <<"4">>,
              PickPrefix \o <<"5">>, PickPrefix \o <<"-", "1">>, PickPrefix \o <<"x">> }

\* Answers of the geocoding service: a status and a body, or no answer
\* (timeout, connection error: session.get raises).
GeoAnswers ==
    {[status |-> 200, results |-> r] : r \in GeoResults}
    \cup {[status |-> 500, results |-> <<>>], [status |-> 0, results |-> <<>>]}

\* fetch_tomorrow_forecast as the handlers see it: a record, None, or an
\* exception out of session.get.
ForecastAnswers == {"record", "none", "raise"}

ForecastReply(fc) ==
    CASE fc = "record" -> "forecast"
      [] fc = "none"   -> "no_forecast"
      [] OTHER         -> "exception"

----------------------------------------------------------------------------
(* The forecast service's answer, fetch_tomorrow_forecast and               *)
(* format_forecast_text.                                                   *)

MaxDates == 3
MaxShort == 2

\* record field -> key of the daily array it is read from
FieldKey ==
    [tmax        |-> "temperature_2m_max",
     tmin        |-> "temperature_2m_min",
     precip_mm   |-> "precipitation_sum",
     precip_prob |-> "precipitation_probability_max",
     wind_max    |-> "windspeed_10m_max",
     wind_dir    |-> "winddirection_10m_dominant",
     weathercode |-> "weathercode",
     sunrise     |-> "sunrise",
     sunset      |-> "sunset",
     clouds      |-> "cloudcover_mean"]

RecFields == DOMAIN FieldKey
ApiKeys == {FieldKey[f] : f \in RecFields}

\* The element at (Python) index i of the array under key k.
Elem(k, i) == [t |-> "elem", n |-> i, s |-> <<k>>]

\* An answer: the status and, for "time" and each requested key, the length
\* of its array (-1: the key is missing or holds no list).
MkPayload(status, n, short, l) ==
    [status |-> status,
     len    |-> [k \in ApiKeys \cup {"time"} |->
                   IF k = "time" THEN n
                   ELSE IF k \in short THEN l
                   ELSE IF n < 0 THEN 0 ELSE n]]

Payloads ==
    {MkPayload(st, n, short, l) :
        st \in {200, 500}, n \in -1..MaxDates,
        short \in {x \in SUBSET ApiKeys : Cardinality(x) <= MaxShort},
        l \in -1..MaxDates}

NoPayload == MkPayload(0, -1, {}, -1)

\* None
NoForecast == [ok |-> FALSE, date |-> Null, rec |-> [f \in RecFields |-> Null]]

\* idx = 0 whatever the number of dates
DayIndexFirst(n) == 0

\* idx = 1 if len(dates) > 1 else 0
DayIndex(n) == IF n > 1 THEN 1 ELSE 0

\* pick(key, default): arr[idx] if arr is a list longer than idx
pick(p, key, idx, default) == IF p.len[key] > idx THEN Elem(key, idx) ELSE default

fetch_tomorrow_forecast(p) ==
    IF p.status # 200 THEN NoForecast
    ELSE IF p.len["time"] <= 0 THEN NoForecast       \* `dates = ... or []`, `if not dates`
    ELSE LET idx == DayIndex(p.len["time"])
         IN [ok   |-> TRUE,
             date |-> Elem("time", idx),
             rec  |-> [f \in RecFields |->
                         pick(p, FieldKey[f], idx, IF f = "precip_mm" THEN Num(0) ELSE Null)]]

\* The pieces a line of the message is made of.
Dash       == Str(<<"dash">>)                   \* the placeholder
NoData     == Str(<<"no data">>)                \* format_wind_dir_full(None)
NoneWord   == Str(<<"None">>)                   \* an f-string printing None
Round(v)   == [t |-> "round", n |-> v.n, s |-> v.s]       \* round(x)
Fixed1(v)  == [t |-> "fixed1", n |-> v.n, s |-> v.s]      \* f"{x:.1f}"
Plain(v)   == IF v = Null THEN NoneWord ELSE v            \* f"{x}"
WindDir(v) == IF v = Null THEN NoData ELSE [t |-> "dir", n |-> v.n, s |-> v.s]
Emoji(v)   == [t |-> "emoji", n |-> v.n, s |-> v.s]       \* wmo_to_emoji, None included

NoText == [raised |-> FALSE, lines |-> <<>>]

\* format_forecast_text: the lines it joins, or TypeError from round(None).
format_forecast_text(f) ==
    IF f.rec.tmin = Null \/ f.rec.tmax = Null
    THEN [raised |-> TRUE, lines |-> <<>>]
    ELSE [raised |-> FALSE,
          lines  |-> <<
            <<Emoji(f.rec.weathercode), Plain(f.date)>>,
            <<Round(f.rec.tmin), Round(f.rec.tmax)>>,
            IF f.rec.clouds # Null THEN <<Plain(f.rec.clouds)>> ELSE <<Dash>>,
            IF f.rec.precip_mm # Null THEN <<Fixed1(f.rec.precip_mm)>> ELSE <<Dash>>,
            IF f.rec.precip_prob # Null THEN <<Plain(f.rec.precip_prob)>> ELSE <<Dash>>,
            IF f.rec.wind_max # Null
              THEN <<Round(f.rec.wind_max), WindDir(f.rec.wind_dir)>> ELSE <<Dash>>,
            <<Plain(f.rec.sunrise), Plain(f.rec.sunset)>> >>]

----------------------------------------------------------------------------
(* State *)

NoGeo == Geo(Absent, Absent, Absent, Absent, Absent, Absent)

\* `had`: whether the step found a job of the user in the job store.
\* `seen`: how many results the step got from geocode_city (-1: it got none
\* to look at).
Step(op, u, reply) == [op |-> op, uid |-> u, reply |-> reply, had |-> FALSE, seen |-> -1]

Init ==
    /\ LAST_CITY = [u \in UserIds |-> Absent]
    /\ PICK_OPTIONS = [u \in UserIds |-> <<>>]
    /\ State = [u \in UserIds |-> NoProfile]
    /\ disk = NoFile
    /\ jobs = <<>>
    /\ inflight = <<>>
    /\ prompts = <<>>
    /\ curPrompt = [u \in UserIds |-> 0]
    /\ last = Step("init", 0, "")
    /\ budget = MaxOps
    /\ member = FALSE
    /\ tmp = NoFile
    /\ pc = "idle"
    /\ payload = NoPayload
    /\ forecast = NoForecast
    /\ text = NoText

Received == budget > 0 /\ budget' = budget - 1

Without(seq, i) == SubSeq(seq, 1, i - 1) \o SubSeq(seq, i + 1, Len(seq))

----------------------------------------------------------------------------
(* apply_city_and_reply, up to save_state: the users dict it leaves.       *)

\* geo.get("timezone", "UTC"): the default is used only when the key is
\* missing; a key holding null gives None.
GeoTimezone(geo) == IF geo.timezone = Absent THEN Str(<<"UTC">>) ELSE geo.timezone

\* float(x) of a JSON number
Float(v) == Num(v.n)

apply_city(users, u, geo) ==
    [ensure_user(users, u) EXCEPT
        ![u].city_label = format_city_label(geo),
        ![u].lat = Float(geo.latitude),
        ![u].lon = Float(geo.longitude),
        ![u].tz = GeoTimezone(geo)]

(* handle_city_query, up to the await of geocode_city *)
StartQuery(u, city, op) ==
    /\ Len(inflight) < MaxInflight
    /\ LAST_CITY' = [LAST_CITY EXCEPT ![u] = city]
    /\ inflight' = Append(inflight,
            [kind |-> "geocode", uid |-> u, query |-> city.s, geo |-> NoGeo,
             pending |-> curPrompt[u], prev |-> LAST_CITY[u]])
    /\ last' = Step(op, u, "")

(* any_text *)
AnyText(u, q, sub) ==
    /\ Received
    /\ IF ~sub
       THEN /\ last' = Step("text", u, "subscribe")
            /\ UNCHANGED <<LAST_CITY, inflight>>
       ELSE StartQuery(u, Str(q), "text")
    /\ UNCHANGED <<PICK_OPTIONS, State, disk, jobs, prompts, curPrompt>>

\* geocode_city: [] unless the status is 200; "results" or [].
geocode_city(answer) == IF answer.status # 200 THEN <<>> ELSE answer.results

\* results[:5], the candidates the picker shows
Offered(results) == SubSeq(results, 1, IF Len(results) < 5 THEN Len(results) ELSE 5)

(* handle_city_query with the `len(results) == 1` branch left out *)
GeocodeDoneNoSingle(i, answer, fc) ==
    /\ i \in 1..Len(inflight)
    /\ inflight[i].kind = "geocode"
    /\ inflight' = Without(inflight, i)
    /\ LET u       == inflight[i].uid
           results == geocode_city(answer)
       IN IF answer.status = 0
          THEN /\ last' = Step("query_done", u, "exception")
               /\ UNCHANGED <<PICK_OPTIONS, State, disk, prompts, curPrompt>>
          ELSE IF results = <<>>
          THEN /\ last' = [Step("query_done", u, "not_found") EXCEPT !.seen = 0]
               /\ UNCHANGED <<PICK_OPTIONS, State, disk, prompts, curPrompt>>
          ELSE /\ Len(prompts) < MaxPrompts
               /\ PICK_OPTIONS' = [PICK_OPTIONS EXCEPT ![u] = results]
               /\ prompts' = Append(prompts, [uid |-> u, offered |-> Offered(results), picked |-> FALSE])
               /\ curPrompt' = [curPrompt EXCEPT ![u] = Len(prompts) + 1]
               /\ last' = [Step("query_done", u, "pick_prompt") EXCEPT !.seen = Len(results)]
               /\ UNCHANGED <<State, disk>>
    /\ UNCHANGED <<LAST_CITY, jobs, budget>>

(* handle_city_query, from the answer of geocode_city on *)
GeocodeDone(i, answer, fc) ==
    /\ i \in 1..Len(inflight)
    /\ inflight[i].kind = "geocode"
    /\ inflight' = Without(inflight, i)
    /\ LET u       == inflight[i].uid
           results == geocode_city(answer)
       IN IF answer.status = 0
          THEN /\ last' = Step("query_done", u, "exception")
               /\ UNCHANGED <<PICK_OPTIONS, State, disk, prompts, curPrompt>>
          ELSE IF results = <<>>
          THEN /\ last' = [Step("query_done", u, "not_found") EXCEPT !.seen = 0]
               /\ UNCHANGED <<PICK_OPTIONS, State, disk, prompts, curPrompt>>
          ELSE IF Len(results) = 1
          THEN /\ State' = apply_city(State, u, results[1])
               /\ disk' = save_state(State')
               /\ last' = [Step("query_done", u, ForecastReply(fc)) EXCEPT !.seen = 1]
               /\ UNCHANGED <<PICK_OPTIONS, prompts, curPrompt>>
          ELSE /\ Len(prompts) < MaxPrompts
               /\ PICK_OPTIONS' = [PICK_OPTIONS EXCEPT ![u] = results]
               /\ prompts' = Append(prompts, [uid |-> u, offered |-> Offered(results), picked |-> FALSE])
               /\ curPrompt' = [curPrompt EXCEPT ![u] = Len(prompts) + 1]
               /\ last' = [Step("query_done", u, "pick_prompt") EXCEPT !.seen = Len(results)]
               /\ UNCHANGED <<State, disk>>
    /\ UNCHANGED <<LAST_CITY, jobs, budget>>

(* repeat_cmd *)
RepeatCmd(u, fc) ==
    /\ Received
    /\ LET known == Truthy(LAST_CITY[u])
           \* `LAST_CITY.get(uid) or ensure_user(uid).get("city_label")`
           users1 == IF known THEN State ELSE ensure_user(State, u)
           city   == IF known THEN LAST_CITY[u] ELSE users1[u].city_label
           users2 == ensure_user(users1, u)
           user   == users2[u]
           geo    == Geo(IF user.city_label = Absent THEN Null ELSE user.city_label,
                         Absent, Absent, user.lat, user.lon, user.tz)
       IN IF ~Truthy(city)
          THEN /\ State' = users1
               /\ last' = Step("repeat", u, "no_city")
               /\ UNCHANGED <<LAST_CITY, disk, inflight>>
          ELSE IF Truthy(user.lat)
          THEN /\ State' = apply_city(users2, u, geo)
               /\ disk' = save_state(State')
               /\ last' = Step("repeat", u, ForecastReply(fc))
               /\ UNCHANGED <<LAST_CITY, inflight>>
          ELSE /\ State' = users2
               /\ StartQuery(u, city, "repeat")
               /\ UNCHANGED disk
    /\ UNCHANGED <<PICK_OPTIONS, jobs, prompts, curPrompt>>

\* `":" not in parts[1]`
HasColon(s) == \E i \in 1..Len(s) : s[i] = ":"

(* The part daily_cmd and quick_daily share: user["daily"] = {"time": t},
   save_state(), schedule_daily(uid, t, user["tz"], bot). *)
SetDaily(users, u, t, op, okReply) ==
    LET users1 == [users EXCEPT ![u].daily = Daily(t)]
        sd     == schedule_daily(jobs, u, t, users1[u].tz)
    IN /\ State' = users1
       /\ disk' = save_state(users1)
       /\ jobs' = sd.jobs
       /\ last' = [Step(op, u, IF sd.raised THEN "exception" ELSE okReply)
                     EXCEPT !.had = HasJob(jobs, JobId(u))]

(* daily_cmd with the `if not user.get("lat")` test left out *)
DailyCmdNoCityTest(u, args, sub) ==
    /\ Received
    /\ IF ~sub
       THEN /\ last' = Step("daily", u, "subscribe")
            /\ UNCHANGED <<State, disk, jobs>>
       ELSE IF Len(args) # 1 \/ ~HasColon(args[1])
       THEN /\ last' = Step("daily", u, "usage")
            /\ UNCHANGED <<State, disk, jobs>>
       ELSE SetDaily(ensure_user(State, u), u, args[1], "daily", "daily_ok")
    /\ UNCHANGED <<LAST_CITY, PICK_OPTIONS, inflight, prompts, curPrompt>>

(* daily_cmd *)
DailyCmd(u, args, sub) ==
    /\ Received
    /\ IF ~sub
       THEN /\ last' = Step("daily", u, "subscribe")
            /\ UNCHANGED <<State, disk, jobs>>
       ELSE IF Len(args) # 1 \/ ~HasColon(args[1])
       THEN /\ last' = Step("daily", u, "usage")
            /\ UNCHANGED <<State, disk, jobs>>
       ELSE IF ~Truthy(ensure_user(State, u)[u].lat)
       THEN /\ State' = ensure_user(State, u)
            /\ last' = Step("daily", u, "need_city")
            /\ UNCHANGED <<disk, jobs>>
       ELSE SetDaily(ensure_user(State, u), u, args[1], "daily", "daily_ok")
    /\ UNCHANGED <<LAST_CITY, PICK_OPTIONS, inflight, prompts, curPrompt>>

(* quick_daily *)
QuickDaily(u, data) ==
    /\ Received
    /\ IF ~Truthy(ensure_user(State, u)[u].lat)
       THEN /\ State' = ensure_user(State, u)
            /\ last' = Step("quick_daily", u, "need_city")
            /\ UNCHANGED <<disk, jobs>>
       ELSE SetDaily(ensure_user(State, u), u, SplitOnce(data, ":")[2], "quick_daily", "daily_ok")
    /\ UNCHANGED <<LAST_CITY, PICK_OPTIONS, inflight, prompts, curPrompt>>

(* stop_cmd *)
StopCmd(u) ==
    /\ Received
    /\ jobs' = cancel_daily(jobs, u)
    /\ State' = [ensure_user(State, u) EXCEPT ![u].daily = Absent]
    /\ disk' = save_state(State')
    /\ last' = [Step("stop", u, "stopped") EXCEPT !.had = HasJob(jobs, JobId(u))]
    /\ UNCHANGED <<LAST_CITY, PICK_OPTIONS, inflight, prompts, curPrompt>>

(* pick_city, up to the await of edit_text. p is the picker message whose
   button was pressed; the handler itself sees only the callback data. *)
PickCity(u, p, data) ==
    /\ Received
    /\ p \in 1..Len(prompts)
    /\ prompts[p].uid = u
    /\ LET opts == PICK_OPTIONS[u]
           arg  == Split(data, ":")[2]
           idx  == IntVal(arg)
       IN IF ~IsInt(arg)
          THEN /\ last' = Step("pick", u, "pick_error")
               /\ UNCHANGED <<PICK_OPTIONS, inflight, prompts, curPrompt>>
          ELSE IF idx < 0 \/ idx >= Len(opts)
          THEN /\ last' = Step("pick", u, "expired")
               /\ UNCHANGED <<PICK_OPTIONS, inflight, prompts, curPrompt>>
          ELSE /\ Len(inflight) < MaxInflight
               /\ PICK_OPTIONS' = [PICK_OPTIONS EXCEPT ![u] = <<>>]
               \* c.message.edit_text: the pressed message loses its buttons
               /\ prompts' = [prompts EXCEPT ![p].picked = TRUE]
               /\ curPrompt' = [curPrompt EXCEPT ![u] = 0]
               /\ inflight' = Append(inflight,
                       [kind |-> "apply", uid |-> u, query |-> <<>>, geo |-> opts[idx + 1],
                        pending |-> p, prev |-> LAST_CITY[u]])
               /\ last' = Step("pick", u, "picked")
    /\ UNCHANGED <<LAST_CITY, State, disk, jobs>>

(* pick_city, from apply_city_and_reply on *)
ApplyPicked(i, fc) ==
    /\ i \in 1..Len(inflight)
    /\ inflight[i].kind = "apply"
    /\ inflight' = Without(inflight, i)
    /\ State' = apply_city(State, inflight[i].uid, inflight[i].geo)
    /\ disk' = save_state(State')
    /\ last' = Step("pick_done", inflight[i].uid, ForecastReply(fc))
    /\ UNCHANGED <<LAST_CITY, PICK_OPTIONS, jobs, prompts, curPrompt, budget>>

(* The scheduler runs a job: send_tomorrow_forecast(bot, user_id) *)
JobFire(j, fc) ==
    /\ j \in 1..Len(jobs)
    /\ State' = ensure_user(State, jobs[j].args)
    /\ last' = Step("job", jobs[j].args,
                    IF ~Truthy(State'[jobs[j].args].lat) THEN "no_city_selected"
                    ELSE ForecastReply(fc))
    /\ UNCHANGED <<LAST_CITY, PICK_OPTIONS, disk, jobs, inflight, prompts, curPrompt, budget>>

(* The process is stopped and started again: main() runs load_state(); the
   module-level maps, the scheduler's memory job store and the suspended
   handlers are gone. The chat keeps its picker messages. *)
Restart ==
    /\ Received
    /\ State' = load_state(disk)
    /\ LAST_CITY' = [u \in UserIds |-> Absent]
    /\ PICK_OPTIONS' = [u \in UserIds |-> <<>>]
    /\ curPrompt' = [u \in UserIds |-> 0]
    /\ jobs' = <<>>
    /\ inflight' = <<>>
    /\ last' = Step("restart", 0, "")
    /\ UNCHANGED <<disk, prompts>>

----------------------------------------------------------------------------

(* An update arrives. The sender is or is not a member of the channel at
   that moment; the handlers that call require_subscription are handed the
   answer, the others never ask. *)
OnTextOf(U, Q) ==
    \E u \in U, q \in Q, sub \in BOOLEAN : AnyText(u, q, sub) /\ member' = sub /\ UNCHANGED stepVars
OnText(U) == OnTextOf(U, Queries)
OnRepeat(U) ==
    \E u \in U, fc \in ForecastAnswers, sub \in BOOLEAN :
        RepeatCmd(u, fc) /\ member' = sub /\ UNCHANGED stepVars
OnDaily(U) ==
    \E u \in U, args \in DailyArgs, sub \in BOOLEAN :
        DailyCmd(u, args, sub) /\ member' = sub /\ UNCHANGED stepVars
OnQuickDaily(U) ==
    \E u \in U, data \in DailyData, sub \in BOOLEAN :
        QuickDaily(u, data) /\ member' = sub /\ UNCHANGED stepVars
OnStop(U) ==
    \E u \in U, sub \in BOOLEAN : StopCmd(u) /\ member' = sub /\ UNCHANGED stepVars
OnPick(U) ==
    \E u \in U, p \in 1..MaxPrompts + 1, data \in PickData, sub \in BOOLEAN :
        PickCity(u, p, data) /\ member' = sub /\ UNCHANGED stepVars

(* A suspended handler goes on, the scheduler runs a job, the process restarts. *)
OnGeocode ==
    \E i \in 1..MaxInflight + 1, a \in GeoAnswers, fc \in ForecastAnswers :
        GeocodeDone(i, a, fc) /\ UNCHANGED <<member, stepVars>>
OnApply ==
    \E i \in 1..MaxInflight + 1, fc \in ForecastAnswers :
        ApplyPicked(i, fc) /\ UNCHANGED <<member, stepVars>>
OnJob ==
    \E j \in 1..Cardinality(UserIds) + 1, fc \in ForecastAnswers :
        JobFire(j, fc) /\ UNCHANGED <<member, stepVars>>
OnRestart == Restart /\ UNCHANGED <<member, stepVars>>

Next ==
    \/ OnText(UserIds)
    \/ OnGeocode
    \/ OnRepeat(UserIds)
    \/ OnDaily(UserIds)
    \/ OnQuickDaily(UserIds)
    \/ OnStop(UserIds)
    \/ OnPick(UserIds)
    \/ OnApply
    \/ OnJob
    \/ OnRestart

Spec == Init /\ [][Next]_vars

(* One user's session, followed further: only user 1 sends updates. *)
InitSolo ==
    /\ LAST_CITY = [u \in UserIds |-> Absent]
    /\ PICK_OPTIONS = [u \in UserIds |-> <<>>]
    /\ State = [u \in UserIds |-> NoProfile]
    /\ disk = NoFile
    /\ jobs = <<>>
    /\ inflight = <<>>
    /\ prompts = <<>>
    /\ curPrompt = [u \in UserIds |-> 0]
    /\ last = Step("init", 0, "")
    /\ budget = MaxSoloOps
    /\ member = FALSE
    /\ tmp = NoFile
    /\ pc = "idle"
    /\ payload = NoPayload
    /\ forecast = NoForecast
    /\ text = NoText

NextSolo ==
    \/ OnText({1})
    \/ OnGeocode
    \/ OnRepeat({1})
    \/ OnDaily({1})
    \/ OnQuickDaily({1})
    \/ OnStop({1})
    \/ OnPick({1})
    \/ OnApply
    \/ OnJob
    \/ OnRestart

SpecSolo == InitSolo /\ [][NextSolo]_vars

----------------------------------------------------------------------------
(* One user typing one city after another, the geocoder answering in any    *)
(* order.                                                                   *)

MaxRaceOps == 3

RaceQueries == {<<"Minsk">>, <<"London">>}

InitRace ==
    /\ LAST_CITY = [u \in UserIds |-> Absent]
    /\ PICK_OPTIONS = [u \in UserIds |-> <<>>]
    /\ State = [u \in UserIds |-> NoProfile]
    /\ disk = NoFile
    /\ jobs = <<>>
    /\ inflight = <<>>
    /\ prompts = <<>>
    /\ curPrompt = [u \in UserIds |-> 0]
    /\ last = Step("init", 0, "")
    /\ budget = MaxRaceOps
    /\ member = FALSE
    /\ tmp = NoFile
    /\ pc = "idle"
    /\ payload = NoPayload
    /\ forecast = NoForecast
    /\ text = NoText

NextRace ==
    \/ OnTextOf({1}, RaceQueries)
    \/ OnGeocode
    \/ OnPick({1})
    \/ OnApply

SpecRace == InitRace /\ [][NextRace]_vars

----------------------------------------------------------------------------
(* save_state followed step by step, with the process dying anywhere in it. *)

MaxSaves == 3

\* The order json.dump writes in: the users, and inside each the keys, in
\* the order the dicts hold them.
KeyOrder == <<"city_label", "lat", "lon", "tz", "daily">>

Slots ==
    [i \in 1..(Cardinality(UserIds) * Len(KeyOrder)) |->
        <<((i - 1) \div Len(KeyOrder)) + 1, KeyOrder[((i - 1) % Len(KeyOrder)) + 1]>>]

IsSet(users, slot) == users[slot[1]].exists /\ Field(users[slot[1]], slot[2]) # Absent

\* The text of the document, as the pieces json.dump hands to f.write.
Serial(users) ==
    LET kept == SelectSeq(Slots, LAMBDA sl : IsSet(users, sl))
    IN [i \in 1..Len(kept) |-> <<kept[i][1], kept[i][2], Field(users[kept[i][1]], kept[i][2])>>]

\* A file holding the first k pieces and no closing brace yet.
Partial(users, k) ==
    [file   |-> TRUE,
     users  |-> {Serial(users)[i][1] : i \in 1..k},
     items  |-> {Serial(users)[i] : i \in 1..k},
     closed |-> FALSE]

\* What the handlers do to STATE before they call save_state.
Mutations(users) ==
    {apply_city(users, u, geo) : u \in UserIds, geo \in {Minsk, Atoll}}
    \cup {[ensure_user(users, u) EXCEPT ![u].daily = Daily(T0800)] :
             u \in {x \in UserIds : Truthy(users[x].lat)}}
    \cup {[ensure_user(users, u) EXCEPT ![u].daily = Absent] : u \in UserIds}

(* A handler has changed STATE and enters save_state: open(tmp, "w") *)
SaveOpen(users) ==
    /\ pc = "idle"
    /\ Received
    /\ State' = users
    /\ tmp' = Partial(users, 0)
    /\ pc' = "write"
    /\ last' = Step("save", 0, "open")
    /\ UNCHANGED disk

(* json.dump writes into the open file with the file kept in place *)
SaveWriteInPlace ==
    /\ pc = "write"
    /\ IF Cardinality(disk.items) < Len(Serial(State)) /\ ~disk.closed
       THEN /\ disk' = Partial(State, Cardinality(disk.items) + 1)
            /\ pc' = "write"
       ELSE /\ disk' = json_dump(State)
            /\ pc' = "replace"
    /\ last' = Step("save", 0, "write")
    /\ UNCHANGED <<State, tmp, budget>>

(* json.dump writes the next piece into tmp; the `with` block closes the
   file after the last one. *)
SaveWrite ==
    /\ pc = "write"
    /\ IF Cardinality(tmp.items) < Len(Serial(State))
       THEN /\ tmp' = Partial(State, Cardinality(tmp.items) + 1)
            /\ pc' = "write"
       ELSE /\ tmp' = json_dump(State)
            /\ pc' = "replace"
    /\ last' = Step("save", 0, "write")
    /\ UNCHANGED <<State, disk, budget>>

(* os.replace(tmp, DATA_FILE) *)
SaveReplace ==
    /\ pc = "replace"
    /\ disk' = tmp
    /\ tmp' = NoFile
    /\ pc' = "idle"
    /\ last' = Step("save", 0, "replace")
    /\ UNCHANGED <<State, budget>>

(* The process dies and is started again: main() runs load_state(). What
   is on disk stays, what was in memory is gone. *)
Crash ==
    /\ State' = load_state(disk)
    /\ pc' = "idle"
    /\ last' = Step("crash", 0, pc)
    /\ UNCHANGED <<disk, tmp, budget>>

InitSave ==
    /\ LAST_CITY = [u \in UserIds |-> Absent]
    /\ PICK_OPTIONS = [u \in UserIds |-> <<>>]
    /\ State = [u \in UserIds |-> NoProfile]
    /\ disk = NoFile
    /\ jobs = <<>>
    /\ inflight = <<>>
    /\ prompts = <<>>
    /\ curPrompt = [u \in UserIds |-> 0]
    /\ last = Step("init", 0, "")
    /\ budget = MaxSaves
    /\ member = FALSE
    /\ tmp = NoFile
    /\ pc = "idle"
    /\ payload = NoPayload
    /\ forecast = NoForecast
    /\ text = NoText

saveFrame == <<LAST_CITY, PICK_OPTIONS, jobs, inflight, prompts, curPrompt, member, fetchVars>>

OnSaveOpen    == \E users \in Mutations(State) : SaveOpen(users) /\ UNCHANGED saveFrame
OnSaveWrite   == SaveWrite /\ UNCHANGED saveFrame
OnSaveReplace == SaveReplace /\ UNCHANGED saveFrame
OnCrash       == Crash /\ UNCHANGED saveFrame

NextSave ==
    \/ OnSaveOpen
    \/ OnSaveWrite
    \/ OnSaveReplace
    \/ OnCrash

SpecSave == InitSave /\ [][NextSave]_vars

----------------------------------------------------------------------------
(* One forecast request followed from the service's answer to the message:  *)
(* send_tomorrow_forecast and apply_city_and_reply, after the profile is    *)
(* read.                                                                    *)

(* fc = await fetch_tomorrow_forecast(...); `if not fc`: the retry message *)
Fetch ==
    /\ pc = "fetch"
    /\ forecast' = fetch_tomorrow_forecast(payload)
    /\ pc' = IF forecast'.ok THEN "format" ELSE "done"
    /\ last' = Step("fetch", 0, IF forecast'.ok THEN "" ELSE "no_forecast")
    /\ UNCHANGED <<payload, text>>

(* text = format_forecast_text(label, tz, fc), then the send *)
Format ==
    /\ pc = "format"
    /\ text' = format_forecast_text(forecast)
    /\ pc' = "done"
    /\ last' = Step("format", 0, IF text'.raised THEN "exception" ELSE "forecast")
    /\ UNCHANGED <<payload, forecast>>

InitFetch ==
    /\ LAST_CITY = [u \in UserIds |-> Absent]
    /\ PICK_OPTIONS = [u \in UserIds |-> <<>>]
    /\ State = [u \in UserIds |-> NoProfile]
    /\ disk = NoFile
    /\ jobs = <<>>
    /\ inflight = <<>>
    /\ prompts = <<>>
    /\ curPrompt = [u \in UserIds |-> 0]
    /\ last = Step("init", 0, "")
    /\ budget = 0
    /\ member = FALSE
    /\ tmp = NoFile
    /\ pc = "fetch"
    /\ payload \in Payloads
    /\ forecast = NoForecast
    /\ text = NoText

fetchFrame ==
    <<LAST_CITY, PICK_OPTIONS, State, disk, jobs, inflight, prompts, curPrompt, budget, member, tmp>>

OnFetch  == Fetch /\ UNCHANGED fetchFrame
OnFormat == Format /\ UNCHANGED fetchFrame

NextFetch ==
    \/ OnFetch
    \/ OnFormat

SpecFetch == InitFetch /\ [][NextFetch]_vars

----------------------------------------------------------------------------
(* Properties *)

JobsOf(u) == {i \in 1..Len(jobs) : jobs[i].id = JobId(u)}

\* A profile has a location when its coordinates are set.
HasLocation(p) == p.lat.t = "num" /\ p.lon.t = "num"

Persisted(u) == json_load(disk)[u]

\* A step of an update handler of user u (not a continuation, not a job).
Handled(u, opnames) ==
    budget' = budget - 1 /\ last'.uid = u /\ last'.op \in opnames

\* HH:MM: two digits, a colon, two digits, a time of day.
ValidHHMM(t) ==
    /\ Len(t) = 5
    /\ t[3] = ":"
    /\ \A i \in {1, 2, 4, 5} : t[i] \in Digits
    /\ 10 * DigitVal(t[1]) + DigitVal(t[2]) <= 23
    /\ 10 * DigitVal(t[4]) + DigitVal(t[5]) <= 59

\* C1: in every reachable state the job store holds at most one job per
\* user, each under the key daily_<user id> of the user it is sent to, and
\* right after a schedule was set (also a second time) the user has exactly
\* one job.
C1_OneJobPerUser ==
    /\ \A u \in UserIds : Cardinality(JobsOf(u)) <= 1
    /\ \A i \in 1..Len(jobs) : jobs[i].args \in UserIds /\ jobs[i].id = JobId(jobs[i].args)
    /\ (last.op \in {"daily", "quick_daily"} /\ last.reply = "daily_ok")
          => Cardinality(JobsOf(last.uid)) = 1

\* C1 witness: /daily answered "done" for a user who already had a job.
C1_Witness ==
    /\ last.op = "daily" /\ last.reply = "daily_ok" /\ last.had
    /\ Cardinality(JobsOf(last.uid)) = 1

\* C2 (as claimed): for every user, the persisted profile has a `daily`
\* entry exactly when the job store holds a job of that user.
C2_DailyIffJob ==
    \A u \in UserIds : (Persisted(u).daily # Absent) <=> (JobsOf(u) # {})

\* C3 (as claimed): every job fires at the hour:minute of its user's
\* daily.time and in the timezone now stored in that user's profile.
C3_JobMatchesProfile ==
    \A i \in 1..Len(jobs) :
        LET p == State[jobs[i].args]
        IN /\ p.daily.t = "dict"
           /\ TimeParses(p.daily.s)
           /\ jobs[i].hour = ParsedHour(p.daily.s)
           /\ jobs[i].minute = ParsedMinute(p.daily.s)
           /\ p.tz = Str(jobs[i].tz)

SameData(p, q) == \A k \in ProfileKeys : Field(p, k) = Field(q, k)

NoMutation(u) ==
    /\ SameData(State'[u], State[u])
    /\ SameData(Persisted(u)', Persisted(u))
    /\ PICK_OPTIONS' = PICK_OPTIONS
    /\ jobs' = jobs

\* C4 (as claimed, for a subscribed user who has a city, so that no other
\* rejection applies): /daily or the daily: callback with a time that is
\* not a valid HH:MM changes neither the profile, nor the persisted
\* document, nor the job store, and is answered with the usage hint.
C4_InvalidTimeNoMutation ==
    [][\A u \in UserIds :
        /\ \A args \in DailyArgs :
              (DailyCmd(u, args, TRUE) /\ Truthy(State[u].lat)
                 /\ ~(Len(args) = 1 /\ ValidHHMM(args[1])))
              => (NoMutation(u) /\ last'.reply = "usage")
        /\ \A data \in DailyData :
              (QuickDaily(u, data) /\ Truthy(State[u].lat)
                 /\ ~ValidHHMM(SplitOnce(data, ":")[2]))
              => (NoMutation(u) /\ last'.reply = "usage")]_vars

\* C5: /daily HH:MM (from a subscriber) or the daily: callback of a user
\* whose profile has no location is answered with the "choose a city
\* first" message, creates no job and sets no `daily`; and in every state a
\* profile with `daily`, in memory or persisted, has a location.
C5_DailyNeedsLocation ==
    /\ [](\A u \in UserIds :
            /\ State[u].daily # Absent => HasLocation(State[u])
            /\ Persisted(u).daily # Absent => HasLocation(Persisted(u))
            /\ JobsOf(u) # {} => HasLocation(State[u]))
    /\ [][\A u \in UserIds :
            (/\ Handled(u, {"daily", "quick_daily"})
             /\ last'.reply \notin {"subscribe", "usage"}
             /\ ~HasLocation(State[u]))
            => /\ last'.reply = "need_city"
               /\ jobs' = jobs /\ JobsOf(u) = {}
               /\ disk' = disk
               /\ State'[u].daily = Absent]_vars

\* C5 witness: a user without a location was just told to choose a city.
C5_Witness ==
    /\ last.op \in {"daily", "quick_daily"} /\ last.reply = "need_city"
    /\ last.uid \in UserIds
    /\ ~HasLocation(State[last.uid])
    /\ State[last.uid].daily = Absent

\* The number a pick: callback carries.
PickArg(data) == Split(data, ":")[2]

NothingPicked(u) == NoMutation(u) /\ inflight' = inflight /\ last'.reply = "expired"

\* C6 (as claimed): when a query sent while a candidate list was pending
\* has been handled (with zero, one or several results), that earlier list
\* is no longer the one stored for the user.
C6_NewQueryAbandonsPending ==
    [][\A i \in 1..Len(inflight), a \in GeoAnswers, fc \in ForecastAnswers :
        (GeocodeDone(i, a, fc) /\ a.status # 0 /\ inflight[i].pending # 0)
        => ~(/\ curPrompt'[inflight[i].uid] = inflight[i].pending
             /\ PICK_OPTIONS'[inflight[i].uid] # <<>>)]_vars

\* C7 (as claimed): a pick pressed on a picker whose list is no longer the
\* stored one (replaced by a newer query, or nothing stored), or with an
\* index outside the stored list, changes nothing and is answered
\* "list expired".
C7_StalePickNoMutation ==
    [][\A u \in UserIds, p \in 1..Len(prompts), data \in PickData :
        (/\ PickCity(u, p, data)
         /\ IsInt(PickArg(data))
         /\ \/ curPrompt[u] # p
            \/ IntVal(PickArg(data)) < 0
            \/ IntVal(PickArg(data)) >= Len(PICK_OPTIONS[u]))
        => NothingPicked(u)]_vars

\* C8 (as claimed; the candidate's timezone is read as "UTC" when the
\* candidate has none): a pick of an offered index on the pending picker
\* clears the stored candidates and applies that candidate, whose latitude,
\* longitude and timezone become the persisted location; a later pick on a
\* picker that was already picked from is answered "expired" and applies
\* nothing.
C8_PickConsumesOnce ==
    [][\A u \in UserIds :
        /\ \A p \in 1..Len(prompts), data \in PickData :
             (/\ PickCity(u, p, data)
              /\ IsInt(PickArg(data))
              /\ curPrompt[u] = p /\ ~prompts[p].picked
              /\ IntVal(PickArg(data)) \in 0..Len(prompts[p].offered) - 1)
             => /\ PICK_OPTIONS'[u] = <<>>
                /\ last'.reply = "picked"
                /\ Len(inflight') = Len(inflight) + 1
                /\ inflight'[Len(inflight')].kind = "apply"
                /\ inflight'[Len(inflight')].uid = u
                /\ inflight'[Len(inflight')].geo = prompts[p].offered[IntVal(PickArg(data)) + 1]
        /\ \A i \in 1..Len(inflight), fc \in ForecastAnswers :
             (ApplyPicked(i, fc) /\ inflight[i].uid = u)
             => /\ Persisted(u)'.lat = Num(inflight[i].geo.latitude.n)
                /\ Persisted(u)'.lon = Num(inflight[i].geo.longitude.n)
                /\ Persisted(u)'.tz = IF inflight[i].geo.timezone = Absent
                                      THEN Str(<<"UTC">>)
                                      ELSE inflight[i].geo.timezone
        /\ \A p \in 1..Len(prompts), data \in PickData :
             (PickCity(u, p, data) /\ IsInt(PickArg(data)) /\ prompts[p].picked)
             => NothingPicked(u)]_vars

\* C9 (as claimed, for a pick on the pending picker): no picker offers more
\* than 5 candidates, and a pick whose index is 5 or more, or beyond the
\* candidates the picker offered, changes nothing and is answered "expired".
C9_OnlyOfferedPickable ==
    /\ [](\A p \in 1..Len(prompts) : Len(prompts[p].offered) <= 5)
    /\ [][\A u \in UserIds, p \in 1..Len(prompts), data \in PickData :
            (/\ PickCity(u, p, data)
             /\ IsInt(PickArg(data))
             /\ curPrompt[u] = p
             /\ \/ IntVal(PickArg(data)) >= 5
                \/ IntVal(PickArg(data)) >= Len(prompts[p].offered))
            => NothingPicked(u)]_vars

\* C10 (as claimed): every persisted profile has none of lat, lon, tz, or
\* all three of them non-null.
C10_LocationAllOrNone ==
    \A u \in UserIds :
        \/ Persisted(u).lat = Absent /\ Persisted(u).lon = Absent /\ Persisted(u).tz = Absent
        \/ Persisted(u).lat.t = "num" /\ Persisted(u).lon.t = "num" /\ Persisted(u).tz.t = "str"

\* C11 (as claimed): an update from a user who is not a member of the
\* channel at that moment (text, /repeat, /daily, /stop, a pick: or daily:
\* callback) changes neither that user's profile, in memory or persisted,
\* nor the job store, nor the stored candidates, and is not answered with a
\* forecast.
C11_NonMemberNoEffect ==
    [][\A u \in UserIds :
        (/\ Handled(u, {"text", "repeat", "daily", "stop", "pick", "quick_daily"})
         /\ ~member')
        => /\ NoMutation(u)
           /\ inflight' = inflight
           /\ last'.reply # "forecast"]_vars

\* C12: the durable file is either missing or a complete document in every
\* state, whatever step of save_state the process died in; the only step
\* that changes it is the rename, which puts the complete new document in
\* its place; a crash leaves it as it was and the load that follows returns
\* that document.
C12_SaveAtomic ==
    /\ [](disk.file => disk.closed /\ json_dump(json_load(disk)) = disk)
    /\ [][disk' # disk
             => pc = "replace" /\ last'.reply = "replace" /\ disk' = json_dump(State)]_vars
    /\ [][last'.op = "crash" /\ last' # last
             => /\ disk' = disk
                /\ \A u \in UserIds : SameData(State'[u], load_state(disk)[u])]_vars

\* C12 witness: the process died while the temporary file was half written,
\* with an earlier document on disk, and came back with that document.
C12_Witness ==
    /\ last.op = "crash" /\ last.reply = "write"
    /\ tmp.file /\ ~tmp.closed /\ tmp.items # {}
    /\ disk.file /\ disk.closed /\ disk.items # {} /\ ~(tmp.items \subseteq disk.items)
    /\ State = json_load(disk)

\* C13: in every state, and so after every handler that changed a location
\* (single-result query, pick, /repeat) or a daily setting (/daily, daily:
\* callback, /stop), loading data.json gives for every user the city_label,
\* lat, lon, tz and daily that are in memory; and a restart leaves each of
\* these values as it was in memory before.
C13_WriteThrough ==
    /\ [](\A u \in UserIds : SameData(load_state(disk)[u], State[u]))
    /\ [][last'.op = "restart" /\ budget' = budget - 1
             => \A u \in UserIds : SameData(State'[u], State[u])]_vars

\* C13 witness: the process was restarted with a located, scheduled user
\* in the store, and has that profile in memory again.
C13_Witness ==
    /\ last.op = "restart"
    /\ \E u \in UserIds :
          /\ State[u].lat.t = "num" /\ State[u].city_label.t = "str"
          /\ State[u].daily.t = "dict"

\* C14 (as claimed): no interactive request (text query, pick, /repeat) ends
\* with an exception out of its handler; a geocoding call that times out or
\* fails is handled as a non-200 answer is, and a forecast call that fails
\* is answered with the retry message.
C14_UpstreamFailureRecovered ==
    /\ [](last.op \in {"query_done", "pick_done", "repeat"} => last.reply # "exception")
    /\ [][\A i \in 1..Len(inflight), fc \in ForecastAnswers :
            GeocodeDone(i, [status |-> 0, results |-> <<>>], fc)
            => last'.reply = "not_found"]_vars

\* The array a record field is read from holds no element for the day.
Missing(f) == payload.len[FieldKey[f]] <= DayIndex(payload.len["time"])

\* The pieces of the message that show field f: <<line, position>>.
ShownAt ==
    [tmin |-> <<2, 1>>, tmax |-> <<2, 2>>, clouds |-> <<3, 1>>, precip_mm |-> <<4, 1>>,
     precip_prob |-> <<5, 1>>, wind_max |-> <<6, 1>>, sunrise |-> <<7, 1>>, sunset |-> <<7, 2>>]

\* C15 (as claimed): once a request whose answer had status 200 and at
\* least one date is through, the formatter has not raised and the message
\* has its 7 lines, whichever daily arrays were missing or too short; each
\* field whose array had no element for the day is None in the record, and
\* tmin, tmax, precipitation, probability, wind, clouds, sunrise and sunset
\* show the placeholder when None.
C15_PartialPayloadFormats ==
    (pc = "done" /\ forecast.ok)
    => /\ ~text.raised
       /\ Len(text.lines) = 7
       /\ \A f \in RecFields : Missing(f) => forecast.rec[f] = Null
       /\ \A f \in DOMAIN ShownAt :
             forecast.rec[f] = Null
             => /\ Len(text.lines[ShownAt[f][1]]) >= ShownAt[f][2]
                /\ text.lines[ShownAt[f][1]][ShownAt[f][2]] = Dash

\* The record is built from index i: the date, and every field whose array
\* reaches that far.
FromIndex(i) ==
    /\ forecast.ok
    /\ forecast.date = Elem("time", i)
    /\ \A f \in RecFields :
          IF payload.len[FieldKey[f]] > i
          THEN forecast.rec[f] = Elem(FieldKey[f], i)
          ELSE forecast.rec[f] \in {Null, Num(0)}

\* C18: after fetch_tomorrow_forecast, for an answer with n dates: the
\* record is built from index 1 when n >= 2 and from index 0 when n = 1,
\* date and fields alike; there is no record (None) when n = 0, when there
\* is no list of dates, or when the status is not 200.
C18_DaySelection ==
    pc # "fetch"
    => LET n == payload.len["time"]
       IN /\ (payload.status # 200 \/ n <= 0) => forecast = NoForecast
          /\ (payload.status = 200 /\ n >= 2) => FromIndex(1)
          /\ (payload.status = 200 /\ n = 1) => FromIndex(0)

\* C18 witness: an answer with two or more dates and full arrays gave the
\* record of index 1.
C18_Witness ==
    /\ pc = "done" /\ forecast.ok /\ ~text.raised
    /\ payload.len["time"] >= 2
    /\ forecast.date = Elem("time", 1)
    /\ \A f \in RecFields : forecast.rec[f] = Elem(FieldKey[f], 1)

\* The user's only query in flight is the one at position i.
OnlyQuery(i) ==
    \A j \in 1..Len(inflight) :
        (inflight[j].kind = "geocode" /\ inflight[j].uid = inflight[i].uid) => j = i

\* A query answered with exactly one result resolves at once: the result
\* becomes the location, nothing is stored to pick from, no picker is shown.
ResolvesAtOnce(u, geo) ==
    /\ State'[u].city_label = format_city_label(geo)
    /\ State'[u].lat = Num(geo.latitude.n)
    /\ State'[u].lon = Num(geo.longitude.n)
    /\ Persisted(u)'.lat = State'[u].lat
    /\ PICK_OPTIONS' = PICK_OPTIONS
    /\ prompts' = prompts
    /\ curPrompt' = curPrompt
    /\ last'.reply # "pick_prompt"

\* C16 (as claimed): when a user's query, the only one they have in
\* flight, comes back with zero results, the profile, the stored candidates,
\* the persisted document and the job store are as before, the last query
\* is what it was before the query was typed, and the answer is "not
\* found"; a query with exactly one result resolves at once.
C16_ZeroResultsNoChange ==
    [][\A u \in UserIds, i \in 1..Len(inflight), a \in GeoAnswers, fc \in ForecastAnswers :
        (GeocodeDone(i, a, fc) /\ a.status # 0 /\ inflight[i].uid = u /\ OnlyQuery(i))
        => /\ geocode_city(a) = <<>>
                => /\ NoMutation(u)
                   /\ prompts' = prompts
                   /\ last'.reply = "not_found"
                   /\ LAST_CITY'[u] = inflight[i].prev
           /\ Len(geocode_city(a)) = 1
                => \E geo \in {geocode_city(a)[1]} : ResolvesAtOnce(u, geo)]_vars

\* C16 (amended): a text query from a member records the typed string as
\* the last query and changes nothing else; when it comes back with zero
\* results, the profile, the stored candidates, the persisted document,
\* the job store and the last query are left as they are and the answer is
\* "not found"; a query with exactly one result resolves at once.
C16_ZeroResultsKeepsQuery ==
    /\ [][(last'.op = "text" /\ last'.reply # "subscribe" /\ budget' = budget - 1)
            => \A u \in UserIds, q \in Queries :
                 AnyText(u, q, TRUE)
                 => /\ LAST_CITY'[u] = Str(q)
                    /\ \A v \in UserIds \ {u} : LAST_CITY'[v] = LAST_CITY[v]
                    /\ State' = State /\ disk' = disk /\ jobs' = jobs
                    /\ PICK_OPTIONS' = PICK_OPTIONS /\ prompts' = prompts]_vars
    /\ [][(last'.op = "query_done" /\ Len(inflight') = Len(inflight) - 1)
            => /\ last'.seen = 0
                    => /\ State' = State /\ disk' = disk /\ jobs' = jobs
                       /\ PICK_OPTIONS' = PICK_OPTIONS /\ prompts' = prompts
                       /\ LAST_CITY' = LAST_CITY
                       /\ last'.reply = "not_found"
               /\ last'.seen = 1
                    => \E u \in {last'.uid} :
                         /\ HasLocation(State'[u]) /\ State'[u].city_label.t = "str"
                         /\ Lookup(disk', u, "lat") = State'[u].lat
                         /\ Lookup(disk', u, "lon") = State'[u].lon
                         /\ PICK_OPTIONS' = PICK_OPTIONS
                         /\ prompts' = prompts /\ curPrompt' = curPrompt
                         /\ last'.reply # "pick_prompt"]_vars

\* C16 witness: a query came back with no result while a picker of the
\* same user was pending; the candidates are still stored and the last
\* query is the string typed.
C16_Witness ==
    /\ last.op = "query_done" /\ last.reply = "not_found" /\ last.seen = 0
    /\ last.uid \in UserIds
    /\ LAST_CITY[last.uid] = Str(<<"Minsk">>)
    /\ PICK_OPTIONS[last.uid] # <<>>

C19_LaterQueryWins ==
    [][\A u \in UserIds, i \in 1..Len(inflight), a \in GeoAnswers, fc \in ForecastAnswers :
        (/\ inflight[i].kind = "geocode" /\ inflight[i].uid = u
         /\ LAST_CITY[u] # Str(inflight[i].query)
         /\ OnlyQuery(i)
         /\ GeocodeDone(i, a, fc))
        => /\ SameData(State'[u], State[u])
           /\ PICK_OPTIONS'[u] = PICK_OPTIONS[u]]_vars

\* C20 (as claimed): for a user whose persisted profile has a location,
\* whatever the coordinates: /daily (from a member, with one argument
\* holding a colon) and the daily: callback are not answered "choose a
\* city first"; /repeat re-applies the stored location, starting no
\* geocoding query; and a scheduled send is not answered "no city
\* selected".
C20_LocationSeenAtZero ==
    [][\A u \in UserIds :
        HasLocation(Persisted(u))
        => /\ Handled(u, {"daily", "quick_daily"}) => last'.reply # "need_city"
           /\ Handled(u, {"repeat"})
                => /\ inflight' = inflight
                   /\ last'.reply \in {"forecast", "no_forecast", "exception"}
           /\ (last'.op = "job" /\ last'.uid = u /\ last' # last)
                => last'.reply # "no_city_selected"]_vars

====
